---- MODULE Spec2Model ----
(***************************************************************************)
(* Model of the zai "check" operation                                      *)
(* (src/packages/zai/src/operations/check.ts): the budget allocation, the  *)
(* fingerprint cache, the example packer, the prompt assembler, the output *)
(* parser and the result publisher, with the tokenizer, the example store  *)
(* and the model provider as the environment.                              *)
(*                                                                         *)
(* A text is a sequence of chunks (strings); the tokenizer counts one      *)
(* token per chunk.  Indexes follow JavaScript: 0-based, -1 for "absent".  *)
(***************************************************************************)
EXTENDS Integers, Sequences, FiniteSets, TLC

\* ------------------------------------------------------------------ bounds
\* number of invocations of check the pipeline runs
NumCalls == 2
\* number of pieces a model response is built from (ParseSpec)
MaxPieces == 4
\* number of candidate examples in a pool (BudgetSpec)
MaxPool == 2

\* ------------------------------------------------------- program constants
\* Math.max(model.input.maxTokens - PROMPT_INPUT_BUFFER, 100)
MinPromptComponent == 100
\* imported from './constants'
PROMPT_INPUT_BUFFER == 1048

None == "<undefined>"
taskType == "zai.check"

\* the chunk '■' the three markers are delimited by
Box == "#"
TRUE_MARK == <<Box, "TRUE", Box>>
FALSE_MARK == <<Box, "FALSE", Box>>
END_MARK == <<Box, "END", Box>>
FinalAnswerLabel == <<"Final Answer:">>
AnalysisLabel == <<"Analysis:">>

\* ------------------------------------------------------------ text helpers
Max(a, b) == IF a >= b THEN a ELSE b
Min(a, b) == IF a <= b THEN a ELSE b

Rep(c, n) == [k \in 1..n |-> c]

\* p occurs in t at the 0-based index i
OccursAt(t, p, i) ==
  /\ i >= 0
  /\ i + Len(p) <= Len(t)
  /\ SubSeq(t, i + 1, i + Len(p)) = p

Occurrences(t, p) == {i \in 0..Len(t) : OccursAt(t, p, i)}

\* String.prototype.includes
Includes(t, p) == Occurrences(t, p) /= {}

\* String.prototype.indexOf
IndexOf(t, p) ==
  IF Includes(t, p)
    THEN CHOOSE i \in Occurrences(t, p) : \A j \in Occurrences(t, p) : i <= j
    ELSE -1

\* String.prototype.lastIndexOf
LastIndexOf(t, p) ==
  IF Includes(t, p)
    THEN CHOOSE i \in Occurrences(t, p) : \A j \in Occurrences(t, p) : i >= j
    ELSE -1

\* String.prototype.replace with a string pattern: the first occurrence only
Replace(t, p, r) ==
  IF Includes(t, p)
    THEN LET i == IndexOf(t, p)
         IN  SubSeq(t, 1, i) \o r \o SubSeq(t, i + Len(p) + 1, Len(t))
    ELSE t

IsSpace(c) == c \in {" ", "\n"}

RECURSIVE TrimStart(_)
TrimStart(t) ==
  IF t /= <<>> /\ IsSpace(Head(t)) THEN TrimStart(Tail(t)) ELSE t

RECURSIVE TrimEnd(_)
TrimEnd(t) ==
  IF t /= <<>> /\ IsSpace(t[Len(t)]) THEN TrimEnd(SubSeq(t, 1, Len(t) - 1)) ELSE t

\* String.prototype.trim
Trim(t) == TrimEnd(TrimStart(t))

\* --------------------------------------------------------------- tokenizer
\* tokenizer.count(text)
TokenCount(t) == Len(t)

\* tokenizer.truncate(text, maxTokens): a prefix of the text.  slack is the
\* number of tokens by which the tokenizer at hand lets the prefix exceed
\* maxTokens: 0 for a tokenizer that keeps to it
Truncate(t, n, slack) == SubSeq(t, 1, Min(Len(t), Max(n, 0) + slack))

\* ------------------------------------------------------------------ budget
PROMPT_COMPONENT(maxTokens) == Max(maxTokens - PROMPT_INPUT_BUFFER, MinPromptComponent)

\* shares of 80% and 50%, more than the whole together
PROMPT_TOKENS_Overcommitted(maxTokens) ==
  [INPUT |-> (PROMPT_COMPONENT(maxTokens) * 4) \div 5,
   CONDITION |-> PROMPT_COMPONENT(maxTokens) \div 2]

\* Math.floor(0.5 * c) and Math.floor(0.2 * c)
PROMPT_TOKENS(maxTokens) ==
  [INPUT |-> PROMPT_COMPONENT(maxTokens) \div 2,
   CONDITION |-> PROMPT_COMPONENT(maxTokens) \div 5]

\* the tokens of the condition not taken off
EXAMPLES_TOKENS_NoCondition(maxTokens, inputAsString, condition) ==
  PROMPT_COMPONENT(maxTokens) - TokenCount(inputAsString)

EXAMPLES_TOKENS(maxTokens, inputAsString, condition) ==
  PROMPT_COMPONENT(maxTokens) - TokenCount(inputAsString) - TokenCount(condition)

\* ------------------------------------------------------------------ parser
\* the transform callback given to generateContent: the verdict and the
\* explanation of a response text, or the thrown error
transformHasTrue(text) == Includes(text, TRUE_MARK)
transformHasFalse(text) == Includes(text, FALSE_MARK)

transformExplanation(text) ==
  Trim(Replace(Replace(Replace(Replace(Replace(text,
         TRUE_MARK, <<>>), FALSE_MARK, <<>>), END_MARK, <<>>),
         FinalAnswerLabel, <<>>), AnalysisLabel, <<>>))

\* the first occurrences compared instead of the last ones
transformFinalAnswer_First(text) ==
  IF transformHasTrue(text) /\ transformHasFalse(text)
    THEN IndexOf(text, TRUE_MARK) > IndexOf(text, FALSE_MARK)
    ELSE transformHasTrue(text)

transformFinalAnswer(text) ==
  IF transformHasTrue(text) /\ transformHasFalse(text)
    THEN LastIndexOf(text, TRUE_MARK) > LastIndexOf(text, FALSE_MARK)
    ELSE transformHasTrue(text)

\* a response without a marker taken for a "false" verdict
transform_GuessFalse(text) ==
  [threw |-> FALSE,
   finalAnswer |-> transformFinalAnswer(text),
   explanation |-> Trim(transformExplanation(text))]

transform(text) ==
  IF ~transformHasTrue(text) /\ ~transformHasFalse(text)
    THEN [threw |-> TRUE, finalAnswer |-> FALSE, explanation |-> <<>>]
    ELSE [threw |-> FALSE,
          finalAnswer |-> transformFinalAnswer(text),
          explanation |-> Trim(transformExplanation(text))]

\* --------------------------------------------------------------- stringify
\* an input value is a string or an array of one-chunk strings
Str(t) == [kind |-> "string", value |-> t]
Arr(t) == [kind |-> "array", value |-> t]
Null == [kind |-> "null", value |-> <<>>]

RECURSIVE JoinItems(_)
JoinItems(items) ==
  IF items = <<>> THEN <<>>
  ELSE IF Len(items) = 1 THEN <<Head(items)>>
  ELSE <<Head(items), ",">> \o JoinItems(Tail(items))

\* stringify(input) of '../utils': a non-empty string is kept, anything else
\* is serialized
stringify(v) ==
  IF v.kind = "string" /\ v.value /= <<>> THEN v.value
  ELSE IF v.kind = "array" THEN <<"[">> \o JoinItems(v.value) \o <<"]">>
  ELSE <<"<input is null, false, undefined or empty>">>

\* ------------------------------------------------------------- fingerprint
\* character code of a chunk
CharCode(c) ==
  CASE c = "A" -> 65
    [] c = "B" -> 66
    [] c = "a" -> 97
    [] c = "b" -> 98
    [] c = "c" -> 99
    [] c = "x" -> 120
    [] c = "\"" -> 34
    [] c = "," -> 44
    [] c = ":" -> 58
    [] c = "{" -> 123
    [] c = "}" -> 125
    [] c = "taskType" -> 1001
    [] c = "taskId" -> 1002
    [] c = "input" -> 1003
    [] c = "condition" -> 1004
    [] c = "zai.check" -> 1005
    [] c = "t1" -> 1006
    [] c = "t2" -> 1007
    [] OTHER -> 63

Quoted(t) == <<"\"">> \o t \o <<"\"">>

\* JSON.stringify({ taskType, taskId, input, condition }): an undefined
\* taskId is left out
KeyJson(taskId, inputAsString, condition) ==
  <<"{", "\"", "taskType", "\"", ":">> \o Quoted(<<taskType>>)
    \o (IF taskId = None THEN <<>>
        ELSE <<",", "\"", "taskId", "\"", ":">> \o Quoted(<<taskId>>))
    \o <<",", "\"", "input", "\"", ":">> \o Quoted(inputAsString)
    \o <<",", "\"", "condition", "\"", ":">> \o Quoted(condition)
    \o <<"}">>

\* one step of the hash on a 32-bit value held as two 16-bit halves
HashStep(h, code) ==
  LET lo == h.lo * 31 + code
  IN  [hi |-> (h.hi * 31 + (lo \div 65536)) % 65536, lo |-> lo % 65536]

\* the hash of the chunks of t from the k-th on, started from h (h is a
\* 32-bit value at every step)
RECURSIVE HashFrom(_, _, _)
HashFrom(h, t, k) ==
  IF k > Len(t) \/ h.lo >= 65536 THEN h
  ELSE HashFrom(HashStep(h, CharCode(t[k])), t, k + 1)

\* fastHash(str) of '../utils': hash = (hash << 5) - hash + code, kept to 32
\* bits; the value is the unsigned integer the hexadecimal string denotes
fastHash(t) == HashFrom([hi |-> 0, lo |-> 0], t, 1)

Key(taskId, inputAsString, condition) == fastHash(KeyJson(taskId, inputAsString, condition))

\* ---------------------------------------------------------------- examples
Example(input, chk, reason, condition) ==
  [input |-> input, check |-> chk, reason |-> reason, condition |-> condition]

NoText == <<"<undefined>">>

defaultExamples ==
  << Example(Str(<<"50", " Cent">>), TRUE,
             <<"50", " Cent", " is", " widely", " recognized", " as", " a",
               " public", " personality", ".">>,
             <<"Is", " the", " input", " a", " public", " personality", "?">>),
     Example(Arr(<<"apple", "banana", "carrot", "house">>), FALSE,
             <<"The", " list", " contains", " a", " house", ",", " which", " is",
               " not", " a", " fruit", ".", " Also", ",", " the", " list",
               " contains", " a", " carrot", ",", " which", " is", " a",
               " vegetable", ".">>,
             <<"Is", " the", " input", " exclusively", " a", " list", " of",
               " fruits", "?">>) >>

\* examples.map((e) => ({ input: e.input, check: e.output, reason: e.explanation }))
FromRecord(e) == Example(Str(e.input), e.output, e.explanation, NoText)

\* the caller's examples put before the retrieved ones
userExamples_CallerFirst(examples, optionExamples) ==
  optionExamples \o [k \in 1..Len(examples) |-> FromRecord(examples[k])]

userExamples(examples, optionExamples) ==
  [k \in 1..Len(examples) |-> FromRecord(examples[k])] \o optionExamples

OrEmpty(t) == IF t = NoText THEN <<>> ELSE t

\* (el) => tokenizer.count(stringify(el.input)) + tokenizer.count(el.reason ?? '')
ExampleCost(el) == TokenCount(stringify(el.input)) + TokenCount(OrEmpty(el.reason))

RECURSIVE TakeFrom(_, _, _)
TakeFrom(arr, tokens, total) ==
  IF arr = <<>> THEN <<>>
  ELSE IF total + ExampleCost(Head(arr)) > tokens THEN <<>>
  ELSE <<Head(arr)>> \o TakeFrom(Tail(arr), tokens, total + ExampleCost(Head(arr)))

\* takeUntilTokens(arr, tokens, count) of '../utils'
takeUntilTokens(arr, tokens) == TakeFrom(arr, tokens, 0)

\* the built-in examples appended to the user examples
Pool_Mixed(users) == users \o defaultExamples

\* userExamples.length ? userExamples : defaultExamples
Pool(users) == IF Len(users) > 0 THEN users ELSE defaultExamples

\* ------------------------------------------------------------------ prompt
formatInput(input, condition, hasUsers, exampleId) ==
  Trim((IF hasUsers
          THEN <<"Expert Example #", ToString(exampleId)>>
          ELSE <<"Example of condition: \"">> \o condition \o <<"\"">>)
       \o <<"\n", "<|start_input|>", "\n">> \o Trim(input)
       \o <<"\n", "<|end_input|>">>)

formatOutput(answer, justification) ==
  Trim(<<"Analysis:", " ">> \o justification
       \o <<"\n", "Final Answer:", " ">> \o (IF answer THEN TRUE_MARK ELSE FALSE_MARK)
       \o <<"\n">> \o END_MARK)

Message(role, content) == [type |-> "text", role |-> role, content |-> content]

\* formatExample(example), the k-th one formatted
formatExample(example, condition, hasUsers, k) ==
  << Message("user",
             formatInput(stringify(example.input),
                         IF example.condition = NoText THEN condition ELSE example.condition,
                         hasUsers, k)),
     Message("assistant", formatOutput(example.check, OrEmpty(example.reason))) >>

RECURSIVE Flat(_)
Flat(s) == IF s = <<>> THEN <<>> ELSE Head(s) \o Flat(Tail(s))

\* the examples takeUntilTokens keeps (line 164)
Packed(users, tokens) == takeUntilTokens(Pool(users), tokens)

\* takeUntilTokens(...).map(formatExample).flat()
allExamples(users, tokens, condition) ==
  Flat([k \in 1..Len(Packed(users, tokens)) |->
          formatExample(Packed(users, tokens)[k], condition, Len(users) > 0, k)])

\* the value of exampleId once the packed examples are formatted: formatInput
\* counts only when there are user examples (line 133)
ExampleIdAfter(users, tokens) ==
  IF Len(users) > 0 THEN 1 + Len(Packed(users, tokens)) ELSE 1

\* the guidance left out whatever the pool
specialInstructions_Never(users) == <<>>

specialInstructions(users) ==
  IF Len(users) > 0
    THEN <<"- You have been provided with examples from previous experts.", "\n",
           "- Make sure to refer to the examples provided by the experts.", "\n",
           "- When in doubt, ground your decision on the examples.", "\n",
           "- When no example is similar to the input, infer from the examples.">>
    ELSE <<>>

DefaultInstructions(exampleId) ==
  <<"Check if the following condition is true or false for the given input.", "\n",
    "Justify your answer, then answer with either TRUE or FALSE, then add END.", "\n",
    "IMPORTANT: answer with either TRUE or FALSE, but NOT both.", "\n",
    "---", "\n",
    "Expert Examples (#1 to #", ToString(exampleId - 1), "):">>

systemPrompt(users, exampleId) ==
  Trim(DefaultInstructions(exampleId) \o <<"\n">> \o specialInstructions(users))

\* the final user message; formatInput takes the next example number
queryMessage(inputAsString, condition, hasUsers, exampleId) ==
  Message("user",
          Trim(<<"Considering the below input and above examples, is the following condition true or false?", "\n">>
               \o formatInput(inputAsString, condition, hasUsers, exampleId)
               \o <<"\n", "In your \"Analysis\", please refer to the Expert Examples # to justify your decision.">>))

\* the request handed to ctx.generateContent
Request(users, tokens, inputAsString, condition) ==
  LET id == ExampleIdAfter(users, tokens)
  IN  [systemPrompt |-> systemPrompt(users, id),
       stopSequences |-> <<END_MARK>>,
       messages |-> allExamples(users, tokens, condition)
                      \o <<queryMessage(inputAsString, condition, Len(users) > 0, id)>>]

\* ------------------------------------------------------------------- store
\* adapter.getExamples({ input, taskType, taskId }): the records of the task,
\* in the order of the store
getExamples(st, tType, taskId) ==
  SelectSeq(st, LAMBDA r : r.taskType = tType /\ r.taskId = taskId)

\* the first record of a key kept, a later write for the key dropped
saveExample_KeepFirst(st, rec) ==
  IF \E k \in 1..Len(st) : st[k].key = rec.key THEN st ELSE Append(st, rec)

\* adapter.saveExample(record): the record of a key is replaced (last write
\* wins), a new key is appended
saveExample(st, rec) ==
  IF \E k \in 1..Len(st) : st[k].key = rec.key
    THEN [k \in 1..Len(st) |-> IF st[k].key = rec.key THEN rec ELSE st[k]]
    ELSE Append(st, rec)

\* the retrieved records never looked up
HasExactMatch_Never(examples, key) == FALSE

\* examples.find((x) => x.key === Key)
HasExactMatch(examples, key) == \E k \in 1..Len(examples) : examples[k].key = key

exactMatch(examples, key) ==
  examples[CHOOSE k \in 1..Len(examples) :
             /\ examples[k].key = key
             /\ \A j \in 1..(k - 1) : examples[j].key /= key]

\* ---------------------------------------------------------------- pipeline
VARIABLES
  maxTokens,   \* model.input.maxTokens of the model of the Zai instance
  hasAdapter,  \* whether ctx.adapter is set
  condition0,  \* the condition the caller asks about
  options0,    \* the options.examples the caller gives
  store,       \* the records of the example store, in order
  writes,      \* number of records written to the store so far
  pc,          \* where each invocation of check is
  args,        \* input, condition, options.examples and ctx.taskId of each invocation
  aborted,     \* ctx.controller.signal.aborted of each invocation
  loc,         \* the local constants of each invocation
  out,         \* what each invocation delivered: a result or an error
  count,       \* the calls each invocation made to its collaborators
  hist,        \* history of each invocation, for the properties
  ptext,       \* ParseSpec: the response text
  pout,        \* ParseSpec: what transform made of it
  bIn,         \* BudgetSpec: maximum input size, input, condition, candidates
  bOut         \* BudgetSpec: the budget and the packed examples

pipeVars == <<maxTokens, hasAdapter, condition0, options0, store, writes, pc, args,
              aborted, loc, out, count, hist>>
pureVars == <<ptext, pout, bIn, bOut>>
vars == <<pipeVars, pureVars>>

Calls == 1..NumCalls

\* the inputs the invocations are given
ModelSizes == {1000}
TaskIds == {None, "t1"}
Inputs == {Str(<<"A", "a">>), Str(<<"B", "B">>), Str(Rep("x", 60)), Str(Rep("x", 70))}
Conditions == {Rep("c", 30)}
OptionExamples ==
  { <<>>,
    <<Example(Str(Rep("x", 90)), FALSE, NoText, NoText),
      Example(Str(<<"a">>), TRUE, <<"b">>, NoText)>> }
Responses ==
  { <<"Analysis:", " ", "yes", "\n", "Final Answer:", " ">> \o TRUE_MARK \o <<"\n">>,
    <<"no", " ">> \o FALSE_MARK,
    <<"maybe">>,
    <<"TRUE", " ">> \o END_MARK }

\* response.meta of generateContent
Meta == [cost |-> [input |-> 1, output |-> 1], latency |-> 1,
         tokens |-> [input |-> 1, output |-> 1]]
ModelId == "best"

NoRequest == [systemPrompt |-> <<>>, stopSequences |-> <<>>, messages |-> <<>>]
NoLoc == [inputAsString |-> <<>>, condition |-> <<>>, EXAMPLES_TOKENS |-> 0,
          Key |-> [hi |-> 0, lo |-> 0], examples |-> <<>>, users |-> <<>>,
          packed |-> <<>>, request |-> NoRequest, text |-> NoText,
          finalAnswer |-> FALSE, explanation |-> <<>>]
NoArgs == [input |-> Null, condition |-> <<>>, examples |-> <<>>, taskId |-> None]
NoOut == [kind |-> "none", value |-> FALSE, explanation |-> <<>>, error |-> None]
\* rejected: the saveExample calls that failed; written: those that wrote
NoCount == [tokenizer |-> 0, getExamples |-> 0, model |-> 0, saveExample |-> 0,
            rejected |-> 0, written |-> 0]
\* before: the invocations that had ended when this one was called; seen: the
\* number of writes the store had taken when this one read it; endWrites: that
\* number when this one ended; hit: served from the store; entry, checkpoint:
\* the signal as read at line 66 and at line 233 ("unread" before);
\* abortedAt: when the caller aborted, "waiting" for the store or the model,
\* at the "verdict" the model returned, or while the store was "saving"
NoHist == [before |-> {}, seen |-> 0, endWrites |-> 0, hit |-> FALSE,
           entry |-> "unread", checkpoint |-> "unread", abortedAt |-> None]

Result(value, explanation) ==
  [kind |-> "result", value |-> value, explanation |-> explanation, error |-> None]
Failure(error) ==
  [kind |-> "error", value |-> FALSE, explanation |-> <<>>, error |-> error]

Terminal == {"done", "failed"}
Sig(b) == IF b THEN "aborted" ELSE "clear"

PipeInit ==
  /\ maxTokens \in ModelSizes
  /\ hasAdapter \in BOOLEAN
  /\ condition0 \in Conditions
  /\ options0 \in OptionExamples
  /\ store = <<>>
  /\ writes = 0
  /\ pc = [i \in Calls |-> "idle"]
  /\ args = [i \in Calls |-> NoArgs]
  /\ aborted = [i \in Calls |-> FALSE]
  /\ loc = [i \in Calls |-> NoLoc]
  /\ out = [i \in Calls |-> NoOut]
  /\ count = [i \in Calls |-> NoCount]
  /\ hist = [i \in Calls |-> NoHist]

\* number of tokenizer.count calls of takeUntilTokens over the pool
PackCounts(users, tokens) ==
  2 * Min(Len(takeUntilTokens(Pool(users), tokens)) + 1, Len(Pool(users)))

\* lines 69-93 of check: the budget, the truncated texts and the fingerprint
Prepare(m, slack, a) ==
  LET inputAsString == Truncate(stringify(a.input), PROMPT_TOKENS(m).INPUT, slack)
      condition == Truncate(a.condition, PROMPT_TOKENS(m).CONDITION, slack)
  IN  [NoLoc EXCEPT !.inputAsString = inputAsString,
                    !.condition = condition,
                    !.EXAMPLES_TOKENS = EXAMPLES_TOKENS(m, inputAsString, condition),
                    !.Key = Key(a.taskId, inputAsString, condition)]

\* lines 109-204 of check: the pool, the packed examples and the request
Assemble(l, a, examples) ==
  LET users == userExamples(examples, a.examples)
  IN  [l EXCEPT !.examples = examples,
                !.users = users,
                !.packed = Packed(users, l.EXAMPLES_TOKENS),
                !.request = Request(users, l.EXAMPLES_TOKENS,
                                    l.inputAsString, l.condition)]


\* the request is handed to ctx.generateContent (line 184)
Generate(i, a, l, examples, counted) ==
  LET users == userExamples(examples, a.examples)
  IN  /\ loc' = [loc EXCEPT ![i] = Assemble(l, a, examples)]
      /\ pc' = [pc EXCEPT ![i] = "generate"]
      /\ count' = [count EXCEPT ![i] =
                     [@ EXCEPT !.model = @ + 1,
                               !.tokenizer = @ + counted
                                               + PackCounts(users, l.EXAMPLES_TOKENS)]]

\* throwIfAborted left out: the signal is not looked at on entry
throwIfAborted_Never(signal) == FALSE

\* ctx.controller.signal.throwIfAborted() (line 66)
throwIfAborted(signal) == signal

\* line 96 without the look at the taskId
UsesStore_NoTaskCheck(taskId) == hasAdapter

\* line 96
UsesStore(taskId) == taskId /= None /\ hasAdapter

\* check(input, condition, options, ctx) is called: lines 66-102, up to the
\* first call that waits for a collaborator.  The tokenizer of the pipeline
\* keeps to the limit it is given (slack 0).  The signal is read at entry
\* only, so that an abort while the tokenizer and the model are obtained is
\* one while the store or the model is awaited.
Call(i, a, sig) ==
  /\ pc[i] = "idle"
  /\ \A j \in Calls : j < i => pc[j] /= "idle"
  /\ args' = [args EXCEPT ![i] = a]
  /\ aborted' = [aborted EXCEPT ![i] = sig]
  /\ hist' = [hist EXCEPT ![i] =
                [@ EXCEPT !.before = {j \in Calls : pc[j] \in Terminal},
                          !.seen = writes,
                          !.endWrites = writes,
                          !.entry = Sig(sig)]]
  /\ IF throwIfAborted(sig)
       THEN /\ pc' = [pc EXCEPT ![i] = "failed"]
            /\ out' = [out EXCEPT ![i] = Failure("Cancelled")]
            /\ UNCHANGED <<loc, count>>
       ELSE /\ out' = out
            /\ IF UsesStore(a.taskId)
                 THEN /\ loc' = [loc EXCEPT ![i] = Prepare(maxTokens, 0, a)]
                      /\ pc' = [pc EXCEPT ![i] = "getExamples"]
                      /\ count' = [count EXCEPT ![i] =
                                     [@ EXCEPT !.tokenizer = @ + 4, !.getExamples = @ + 1]]
                 ELSE Generate(i, a, Prepare(maxTokens, 0, a), <<>>, 4)
  /\ UNCHANGED <<maxTokens, hasAdapter, condition0, options0, store, writes, pureVars>>

CallStep ==
  \E i \in Calls, input \in Inputs, taskId \in TaskIds, sig \in BOOLEAN :
    Call(i, [input |-> input, condition |-> condition0,
             examples |-> options0, taskId |-> taskId], sig)

\* adapter.getExamples answers: lines 95-107, and on a miss lines 109-204
GetExamplesReturn ==
  \E i \in Calls :
    /\ pc[i] = "getExamples"
    /\ LET examples == getExamples(store, taskType, args[i].taskId)
       IN  IF HasExactMatch(examples, loc[i].Key)
             THEN /\ pc' = [pc EXCEPT ![i] = "done"]
                  /\ out' = [out EXCEPT ![i] =
                               Result(exactMatch(examples, loc[i].Key).output,
                                      exactMatch(examples, loc[i].Key).explanation)]
                  /\ loc' = [loc EXCEPT ![i].examples = examples]
                  /\ hist' = [hist EXCEPT ![i] =
                                [@ EXCEPT !.seen = writes, !.hit = TRUE,
                                          !.endWrites = writes]]
                  /\ count' = count
             ELSE /\ Generate(i, args[i], loc[i], examples, 0)
                  /\ hist' = [hist EXCEPT ![i].seen = writes]
                  /\ out' = out
    /\ UNCHANGED <<maxTokens, hasAdapter, condition0, options0, store, writes, args,
                   aborted, pureVars>>

\* adapter.getExamples rejects: the error leaves check
GetExamplesFail ==
  \E i \in Calls :
    /\ pc[i] = "getExamples"
    /\ pc' = [pc EXCEPT ![i] = "failed"]
    /\ out' = [out EXCEPT ![i] = Failure("StoreReadError")]
    /\ hist' = [hist EXCEPT ![i].endWrites = writes]
    /\ UNCHANGED <<maxTokens, hasAdapter, condition0, options0, store, writes, args,
                   aborted, loc, count, pureVars>>

\* ctx.generateContent: the model answers with a text and transform (lines
\* 205-230) is applied to it; an error thrown by transform leaves check
ModelReturn ==
  \E i \in Calls, text \in Responses :
    /\ pc[i] = "generate"
    /\ LET t == transform(text)
       IN  IF t.threw
             THEN /\ pc' = [pc EXCEPT ![i] = "failed"]
                  /\ out' = [out EXCEPT ![i] = Failure("MalformedVerdict")]
                  /\ hist' = [hist EXCEPT ![i].endWrites = writes]
                  /\ loc' = [loc EXCEPT ![i].text = text]
             ELSE /\ pc' = [pc EXCEPT ![i] = "generated"]
                  /\ loc' = [loc EXCEPT ![i] =
                               [@ EXCEPT !.text = text,
                                         !.finalAnswer = t.finalAnswer,
                                         !.explanation = t.explanation]]
                  /\ UNCHANGED <<out, hist>>
    /\ UNCHANGED <<maxTokens, hasAdapter, condition0, options0, store, writes, args,
                   aborted, count, pureVars>>

\* a provider failure answered by calling the model once more
ModelFail_Retry ==
  \E i \in Calls :
    /\ pc[i] = "generate"
    /\ count[i].model < 2
    /\ count' = [count EXCEPT ![i].model = @ + 1]
    /\ UNCHANGED <<maxTokens, hasAdapter, condition0, options0, store, writes, pc, args,
                   aborted, loc, out, hist, pureVars>>

\* ctx.generateContent rejects (a provider failure): the error leaves check
ModelFail ==
  \E i \in Calls :
    /\ pc[i] = "generate"
    /\ pc' = [pc EXCEPT ![i] = "failed"]
    /\ out' = [out EXCEPT ![i] = Failure("ProviderError")]
    /\ hist' = [hist EXCEPT ![i].endWrites = writes]
    /\ UNCHANGED <<maxTokens, hasAdapter, condition0, options0, store, writes, args,
                   aborted, loc, count, pureVars>>

\* Record with the opposite verdict stored as the output
Record_NegatedOutput(i) ==
  [key |-> loc[i].Key,
   taskType |-> taskType,
   taskId |-> args[i].taskId,
   input |-> loc[i].inputAsString,
   instructions |-> loc[i].condition,
   metadata |-> [cost |-> Meta.cost, latency |-> Meta.latency,
                 model |-> ModelId, tokens |-> Meta.tokens],
   output |-> ~loc[i].finalAnswer,
   explanation |-> loc[i].explanation]

\* the record handed to adapter.saveExample (lines 234-254)
Record(i) ==
  [key |-> loc[i].Key,
   taskType |-> taskType,
   taskId |-> args[i].taskId,
   input |-> loc[i].inputAsString,
   instructions |-> loc[i].condition,
   metadata |-> [cost |-> Meta.cost, latency |-> Meta.latency,
                 model |-> ModelId, tokens |-> Meta.tokens],
   output |-> loc[i].finalAnswer,
   explanation |-> loc[i].explanation]

\* the value check returns (lines 257-260)
Returned(i) == Result(loc[i].finalAnswer, Trim(loc[i].explanation))

\* line 233 without the look at the signal
ShouldSave_IgnoresSignal(taskId, signal) == taskId /= None /\ hasAdapter

\* line 233 without the look at the taskId
ShouldSave_NoTaskCheck(taskId, signal) == hasAdapter /\ ~signal

\* line 233
ShouldSave(taskId, signal) == taskId /= None /\ hasAdapter /\ ~signal

\* check resumes after generateContent: the second checkpoint (line 233),
\* then adapter.saveExample is called or the result is returned
Checkpoint ==
  \E i \in Calls :
    /\ pc[i] = "generated"
    /\ IF ShouldSave(args[i].taskId, aborted[i])
         THEN /\ pc' = [pc EXCEPT ![i] = "saving"]
              /\ count' = [count EXCEPT ![i].saveExample = @ + 1]
              /\ hist' = [hist EXCEPT ![i].checkpoint = Sig(aborted[i])]
              /\ out' = out
         ELSE /\ pc' = [pc EXCEPT ![i] = "done"]
              /\ out' = [out EXCEPT ![i] = Returned(i)]
              /\ hist' = [hist EXCEPT ![i] =
                            [@ EXCEPT !.checkpoint = Sig(aborted[i]),
                                      !.endWrites = writes]]
              /\ count' = count
    /\ UNCHANGED <<maxTokens, hasAdapter, condition0, options0, store, writes, args,
                   aborted, loc, pureVars>>

\* adapter.saveExample resolves: the record is in the store and check returns
SaveReturn ==
  \E i \in Calls :
    /\ pc[i] = "saving"
    /\ store' = saveExample(store, Record(i))
    /\ writes' = writes + 1
    /\ pc' = [pc EXCEPT ![i] = "done"]
    /\ out' = [out EXCEPT ![i] = Returned(i)]
    /\ count' = [count EXCEPT ![i].written = @ + 1]
    /\ hist' = [hist EXCEPT ![i].endWrites = writes + 1]
    /\ UNCHANGED <<maxTokens, hasAdapter, condition0, options0, args, aborted, loc,
                   pureVars>>

\* adapter.saveExample rejects: the awaited call throws and the error leaves check
SaveFail ==
  \E i \in Calls :
    /\ pc[i] = "saving"
    /\ pc' = [pc EXCEPT ![i] = "failed"]
    /\ out' = [out EXCEPT ![i] = Failure("StoreWriteError")]
    /\ hist' = [hist EXCEPT ![i].endWrites = writes]
    /\ count' = [count EXCEPT ![i].rejected = @ + 1]
    /\ UNCHANGED <<maxTokens, hasAdapter, condition0, options0, store, writes, args,
                   aborted, loc, pureVars>>

AbortPhase(p) ==
  CASE p = "generated" -> "verdict"
    [] p = "saving" -> "saving"
    [] OTHER -> "waiting"

\* the caller aborts the invocation while it waits
Abort ==
  \E i \in Calls :
    /\ pc[i] \in {"getExamples", "generate", "generated", "saving"}
    /\ ~aborted[i]
    /\ aborted' = [aborted EXCEPT ![i] = TRUE]
    /\ hist' = [hist EXCEPT ![i].abortedAt = AbortPhase(pc[i])]
    /\ UNCHANGED <<maxTokens, hasAdapter, condition0, options0, store, writes, pc, args,
                   loc, out, count, pureVars>>

NoParse == [ran |-> FALSE, threw |-> FALSE, finalAnswer |-> FALSE, explanation |-> <<>>]
NoBudgetIn == [maxTokens |-> 0, slack |-> 0, input |-> Null, condition |-> <<>>,
               retrieved |-> <<>>, examples |-> <<>>]
NoBudgetOut == [stage |-> "idle", loc |-> NoLoc]

PureIdle ==
  /\ ptext = <<>>
  /\ pout = NoParse
  /\ bIn = NoBudgetIn
  /\ bOut = NoBudgetOut

Init == PipeInit /\ PureIdle

Next ==
  \/ CallStep
  \/ GetExamplesReturn
  \/ GetExamplesFail
  \/ ModelReturn
  \/ ModelFail
  \/ Checkpoint
  \/ SaveReturn
  \/ SaveFail
  \/ Abort

Spec == Init /\ [][Next]_vars

\* ------------------------------------------------ the parser on its own
\* the pieces response texts are made of
Pieces ==
  { TRUE_MARK, FALSE_MARK, END_MARK, FinalAnswerLabel, AnalysisLabel,
    <<" ">>, <<"x">>, <<Box>>, <<"TRUE">>, <<"FALSE">> }

RECURSIVE TextsOf(_)
TextsOf(n) ==
  IF n = 0 THEN {<<>>}
  ELSE LET shorter == TextsOf(n - 1)
       IN  shorter \cup {t \o p : t \in shorter, p \in Pieces}

PipeIdle ==
  /\ maxTokens = 1000
  /\ hasAdapter = FALSE
  /\ condition0 = <<>>
  /\ options0 = <<>>
  /\ store = <<>>
  /\ writes = 0
  /\ pc = [i \in Calls |-> "idle"]
  /\ args = [i \in Calls |-> NoArgs]
  /\ aborted = [i \in Calls |-> FALSE]
  /\ loc = [i \in Calls |-> NoLoc]
  /\ out = [i \in Calls |-> NoOut]
  /\ count = [i \in Calls |-> NoCount]
  /\ hist = [i \in Calls |-> NoHist]

ParseInit ==
  /\ PipeIdle
  /\ ptext \in TextsOf(MaxPieces)
  /\ pout = NoParse
  /\ bIn = NoBudgetIn
  /\ bOut = NoBudgetOut

\* transform(text) is applied to the response (lines 205-230)
Transform ==
  /\ ~pout.ran
  /\ pout' = [ran |-> TRUE,
              threw |-> transform(ptext).threw,
              finalAnswer |-> transform(ptext).finalAnswer,
              explanation |-> transform(ptext).explanation]
  /\ UNCHANGED <<ptext, bIn, bOut, pipeVars>>

ParseNext == Transform
ParseSpec == ParseInit /\ [][ParseNext]_vars

\* ------------------------------------------------ the budget on its own
BudgetSizes == {0, 1048, 1148, 1149, 1178}
BudgetSlacks == {0, 15, 20}
BudgetInputs == {Str(<<"A", "a">>), Str(Rep("x", 50)), Str(Rep("x", 51)),
                 Str(Rep("x", 70)), Arr(<<"a", "b">>)}
BudgetConditions == {<<"c">>, Rep("c", 20), Rep("c", 26), Rep("c", 40)}
\* a record the store returns for the task
Retrieved(input, output, explanation) ==
  [key |-> [hi |-> 0, lo |-> 1], taskType |-> taskType, taskId |-> "t1",
   input |-> input, instructions |-> <<"c">>,
   metadata |-> [cost |-> Meta.cost, latency |-> Meta.latency,
                 model |-> ModelId, tokens |-> Meta.tokens],
   output |-> output, explanation |-> explanation]
BudgetRetrieved ==
  { <<>>, <<Retrieved(Rep("x", 8), TRUE, <<"yes">>)>>,
    <<Retrieved(Rep("x", 50), FALSE, Rep("y", 10))>> }
BudgetExamples ==
  { Example(Str(<<"a">>), TRUE, <<"b">>, NoText),
    Example(Str(Rep("x", 20)), FALSE, NoText, <<"d">>),
    Example(Arr(<<"a", "b", "c">>), TRUE, Rep("y", 40), NoText) }

RECURSIVE SeqsUpTo(_, _)
SeqsUpTo(S, n) ==
  IF n = 0 THEN {<<>>}
  ELSE LET shorter == SeqsUpTo(S, n - 1)
       IN  shorter \cup {Append(q, e) : q \in shorter, e \in S}

BudgetInit ==
  /\ PipeIdle
  /\ ptext = <<>>
  /\ pout = NoParse
  /\ bIn \in [maxTokens : BudgetSizes, slack : BudgetSlacks, input : BudgetInputs,
              condition : BudgetConditions, retrieved : BudgetRetrieved,
              examples : SeqsUpTo(BudgetExamples, MaxPool)]
  /\ bOut = NoBudgetOut

\* lines 69-93 of check
Allocate ==
  /\ bOut.stage = "idle"
  /\ bOut' = [stage |-> "allocated",
              loc |-> Prepare(bIn.maxTokens, bIn.slack,
                              [input |-> bIn.input, condition |-> bIn.condition,
                               examples |-> bIn.examples, taskId |-> "t1"])]
  /\ UNCHANGED <<bIn, ptext, pout, pipeVars>>

\* lines 109-204 of check
Pack ==
  /\ bOut.stage = "allocated"
  /\ bOut' = [stage |-> "packed",
              loc |-> Assemble(bOut.loc,
                               [input |-> bIn.input, condition |-> bIn.condition,
                                examples |-> bIn.examples, taskId |-> "t1"],
                               bIn.retrieved)]
  /\ UNCHANGED <<bIn, ptext, pout, pipeVars>>

BudgetNext == Allocate \/ Pack
BudgetSpec == BudgetInit /\ [][BudgetNext]_vars

\* ================================================================ properties
\* with a store configured, j was called after i had returned a result, with
\* the same taskId (set), input and condition, and the store took no write
\* between the end of i and the moment j read it
Successive(i, j) ==
  /\ hasAdapter
  /\ i /= j
  /\ i \in hist[j].before
  /\ pc[i] = "done"
  /\ args[j].taskId /= None
  /\ args[j].taskId = args[i].taskId
  /\ args[j].input = args[i].input
  /\ args[j].condition = args[i].condition
  /\ hist[j].seen = hist[i].endWrites

\* j has got past its store lookup, or has none, and was not cancelled at entry
Answered(j) ==
  /\ pc[j] \notin {"idle", "getExamples"}
  /\ out[j].error \notin {"Cancelled", "StoreReadError"}

Replayed(i, j) ==
  /\ pc[j] = "done"
  /\ out[j].kind = "result"
  /\ out[j].value = out[i].value
  /\ out[j].explanation = out[i].explanation
  /\ count[j].model = 0

\* the record of i's fingerprint is in the store when i ends: i was served
\* from it or wrote it
Stored(i) == hist[i].hit \/ count[i].written = 1

\* C1 as stated: of two successive calls with the same taskId (set), input
\* and condition, the first successful and the store untouched in between,
\* the second returns the first one's Result without invoking the model.
C1_Original ==
  \A i, j \in Calls : (Successive(i, j) /\ Answered(j)) => Replayed(i, j)

\* C1 (amended): the same, provided the first call left its record in the
\* store (it was a cache hit, or it was not cancelled before its second
\* checkpoint, so that it wrote its record).
C1_Replay ==
  \A i, j \in Calls : (Successive(i, j) /\ Stored(i) /\ Answered(j)) => Replayed(i, j)

C1_Witness ==
  \E i, j \in Calls :
    /\ Successive(i, j)
    /\ count[i].model = 1
    /\ count[i].written = 1
    /\ hist[j].hit
    /\ Replayed(i, j)

\* C2: when the model returned a parseable verdict and saveExample then
\* fails, the invocation still ends successfully with the computed value and
\* explanation.
C2_SaveFailureKeepsResult ==
  \A i \in Calls :
    count[i].rejected > 0 =>
      /\ pc[i] = "done"
      /\ out[i] = Returned(i)

\* C3: an invocation whose signal is set on entry ends Cancelled and calls
\* neither the tokenizer, nor the store (getExamples, saveExample), nor the
\* model.
C3_CancelledAtEntry ==
  \A i \in Calls :
    hist[i].entry = "aborted" =>
      /\ pc[i] = "failed"
      /\ out[i] = Failure("Cancelled")
      /\ count[i].tokenizer = 0
      /\ count[i].getExamples = 0
      /\ count[i].saveExample = 0
      /\ count[i].written = 0
      /\ count[i].model = 0

C3_Witness ==
  \E i \in Calls :
    /\ hist[i].entry = "aborted"
    /\ out[i].error = "Cancelled"
    /\ store /= <<>>

\* C4 as stated: a cancellation at any moment after the model returned a
\* verdict, the time between the second checkpoint and the store write
\* included, leaves the verdict returned and no record written by the
\* invocation (an invocation whose saveExample failed is left to C2).
C4_Original ==
  \A i \in Calls :
    (hist[i].abortedAt \in {"verdict", "saving"} /\ pc[i] \in Terminal
       /\ count[i].rejected = 0) =>
      /\ out[i] = Returned(i)
      /\ count[i].written = 0

\* C4 (amended): when the signal is set at the second checkpoint (line 233),
\* the verdict is returned and saveExample is not called, so no record is
\* written; a cancellation that comes after the checkpoint, while saveExample
\* is awaited, does not stop the write.
C4_CancelledAtCheckpoint ==
  \A i \in Calls :
    hist[i].checkpoint = "aborted" =>
      /\ pc[i] = "done"
      /\ out[i] = Returned(i)
      /\ count[i].saveExample = 0
      /\ count[i].written = 0

C4_Witness ==
  \E i \in Calls :
    /\ hasAdapter
    /\ args[i].taskId /= None
    /\ hist[i].abortedAt = "verdict"
    /\ hist[i].checkpoint = "aborted"
    /\ pc[i] = "done"

NoMarker(text) ==
  /\ \A k \in 0..Len(text) : ~OccursAt(text, TRUE_MARK, k)
  /\ \A k \in 0..Len(text) : ~OccursAt(text, FALSE_MARK, k)

\* C5: a response text with neither the TRUE nor the FALSE marker ends the
\* invocation with a MalformedVerdict failure: no Result is returned, the
\* model is not called again and nothing is saved.
C5_MalformedVerdict ==
  \A i \in Calls :
    (loc[i].text /= NoText /\ NoMarker(loc[i].text)) =>
      /\ pc[i] = "failed"
      /\ out[i] = Failure("MalformedVerdict")
      /\ count[i].model = 1
      /\ count[i].saveExample = 0

C5_Witness ==
  \E i \in Calls :
    /\ loc[i].text /= NoText
    /\ NoMarker(loc[i].text)
    /\ \E k \in 1..Len(loc[i].text) : loc[i].text[k] = "TRUE"
    /\ out[i].error = "MalformedVerdict"

\* the last TRUE marker comes after every FALSE marker
TrueIsLast(text) ==
  \E k \in Occurrences(text, TRUE_MARK) : \A m \in Occurrences(text, FALSE_MARK) : m < k
\* the last FALSE marker comes after every TRUE marker
FalseIsLast(text) ==
  \E k \in Occurrences(text, FALSE_MARK) : \A m \in Occurrences(text, TRUE_MARK) : m < k

\* C6: when exactly one marker occurs in the response it is the verdict; when
\* both occur the verdict is the one whose last occurrence is the later:
\* false when a FALSE comes after the last TRUE, true when a TRUE comes after
\* the last FALSE.
C6_Verdict ==
  pout.ran =>
    /\ (Occurrences(ptext, TRUE_MARK) /= {} /\ Occurrences(ptext, FALSE_MARK) = {})
         => (~pout.threw /\ pout.finalAnswer = TRUE)
    /\ (Occurrences(ptext, FALSE_MARK) /= {} /\ Occurrences(ptext, TRUE_MARK) = {})
         => (~pout.threw /\ pout.finalAnswer = FALSE)
    /\ (Occurrences(ptext, TRUE_MARK) /= {} /\ Occurrences(ptext, FALSE_MARK) /= {})
         => /\ ~pout.threw
            /\ FalseIsLast(ptext) => pout.finalAnswer = FALSE
            /\ TrueIsLast(ptext) => pout.finalAnswer = TRUE
            /\ FalseIsLast(ptext) \/ TrueIsLast(ptext)

C6_Witness ==
  /\ pout.ran
  /\ Cardinality(Occurrences(ptext, TRUE_MARK)) = 2
  /\ FalseIsLast(ptext)
  /\ pout.finalAnswer = FALSE

RECURSIVE SumCost(_)
SumCost(examples) ==
  IF examples = <<>> THEN 0
  ELSE TokenCount(stringify(Head(examples).input))
         + (IF Head(examples).reason = NoText THEN 0 ELSE TokenCount(Head(examples).reason))
         + SumCost(Tail(examples))

\* truncate kept to the limits it was given
TruncateKeptLimits ==
  /\ TokenCount(bOut.loc.inputAsString) <= PROMPT_TOKENS(bIn.maxTokens).INPUT
  /\ TokenCount(bOut.loc.condition) <= PROMPT_TOKENS(bIn.maxTokens).CONDITION

TotalBudget == Max(bIn.maxTokens - PROMPT_INPUT_BUFFER, MinPromptComponent)

\* C7: whatever the maximum input size, the input, the condition and the
\* pool, the tokens of the truncated input, of the truncated condition and of
\* the packed examples together stay within max(maxTokens - overhead, floor),
\* provided truncate(text, n) yields at most n tokens.
C7_WithinBudget ==
  (bOut.stage = "packed" /\ TruncateKeptLimits) =>
    TokenCount(bOut.loc.inputAsString) + TokenCount(bOut.loc.condition)
      + SumCost(bOut.loc.packed) <= TotalBudget

C7_Witness ==
  /\ bOut.stage = "packed"
  /\ TruncateKeptLimits
  /\ bIn.maxTokens > PROMPT_INPUT_BUFFER + MinPromptComponent
  /\ TokenCount(bOut.loc.inputAsString) < TokenCount(stringify(bIn.input))
  /\ Len(bOut.loc.packed) >= 1
  /\ Len(bOut.loc.packed) < Len(bOut.loc.users)

\* the lines of guidance on the examples of previous experts
GuidanceLines ==
  {"- You have been provided with examples from previous experts.",
   "- Make sure to refer to the examples provided by the experts.",
   "- When in doubt, ground your decision on the examples.",
   "- When no example is similar to the input, infer from the examples."}

HasGuidance(prompt) == \E k \in 1..Len(prompt) : prompt[k] \in GuidanceLines

\* nothing but the final query is sent
OnlyQuery(request) ==
  /\ Len(request.messages) = 1
  /\ request.messages[1].role = "user"

\* C8 as stated: with an examples budget of 0, whatever the pool, no example
\* is packed, the messages hold no example and the system prompt is the
\* default instructions alone.
C8_Original ==
  (bOut.stage = "packed" /\ bOut.loc.EXAMPLES_TOKENS = 0) =>
    /\ bOut.loc.packed = <<>>
    /\ OnlyQuery(bOut.loc.request)
    /\ ~HasGuidance(bOut.loc.request.systemPrompt)

\* C8 (amended): with an examples budget of 0, whatever the pool, no example
\* is packed and the messages hold no example; the system prompt is the
\* default instructions alone exactly when the pool is the fallback pool, and
\* carries the guidance on the experts' examples whenever there are
\* store-retrieved or caller-supplied candidates, although none is shown.
C8_ZeroBudget ==
  (bOut.stage = "packed" /\ bOut.loc.EXAMPLES_TOKENS = 0) =>
    /\ bOut.loc.packed = <<>>
    /\ OnlyQuery(bOut.loc.request)
    /\ HasGuidance(bOut.loc.request.systemPrompt)
         <=> (Len(bIn.retrieved) + Len(bIn.examples) > 0)

C8_Witness ==
  /\ bOut.stage = "packed"
  /\ bOut.loc.EXAMPLES_TOKENS = 0
  /\ Len(bIn.retrieved) > 0
  /\ Len(bIn.examples) > 0
  /\ HasGuidance(bOut.loc.request.systemPrompt)

\* C9: an invocation without a taskId never calls getExamples, never calls
\* saveExample and writes nothing, and, whatever the store holds, goes
\* through the whole pipeline to the model call (an invocation cancelled at
\* entry goes through none of it, C3).
C9_NoTaskId ==
  \A i \in Calls :
    (pc[i] /= "idle" /\ args[i].taskId = None) =>
      /\ count[i].getExamples = 0
      /\ count[i].saveExample = 0
      /\ count[i].written = 0
      /\ ~hist[i].hit
      /\ hist[i].entry = "clear" =>
           /\ count[i].model = 1
           /\ Len(loc[i].request.messages) >= 1

\* an invocation without a taskId ran to its result while the store held a
\* record for its very input and condition
C9_Witness ==
  \E i, j \in Calls :
    /\ hasAdapter
    /\ args[j].taskId = None
    /\ pc[j] = "done"
    /\ j \notin hist[i].before
    /\ i \in hist[j].before
    /\ count[i].written = 1
    /\ args[i].input = args[j].input
    /\ store /= <<>>

\* the model response was parsed into a verdict: check got to line 233
Parsed(i) == hist[i].checkpoint /= "unread"

\* C10: with a store configured, saveExample is called, once, after the model
\* call and before the result is delivered, exactly in the runs that missed
\* the cache, parsed a verdict, have a taskId and find the signal clear at
\* the second checkpoint; in every other run (cache hit, model failure,
\* MalformedVerdict, cancellation at entry) it is not called and no record is
\* written.
C10_SaveExactlyWhen ==
  \A i \in Calls :
    /\ count[i].saveExample =
         (IF hasAdapter /\ ~hist[i].hit /\ Parsed(i) /\ args[i].taskId /= None
               /\ hist[i].checkpoint = "clear"
            THEN 1 ELSE 0)
    /\ count[i].written <= count[i].saveExample
    /\ count[i].saveExample = 1 => count[i].model = 1
    /\ pc[i] = "saving" => (count[i].saveExample = 1 /\ out[i].kind = "none")
    /\ (out[i].kind = "result" /\ ~hist[i].hit /\ hasAdapter /\ args[i].taskId /= None
          /\ hist[i].checkpoint = "clear") => count[i].written = 1
    /\ (hist[i].hit \/ out[i].kind = "error" \/ hist[i].checkpoint = "aborted")
         => count[i].written = 0

C10_Witness ==
  \E i, j \in Calls :
    /\ count[i].saveExample = 1 /\ count[i].written = 1 /\ pc[i] = "done"
    /\ hist[j].hit /\ count[j].saveExample = 0
    /\ Len(store) = 1

\* C11: when the records retrieved for the task hold one whose key is the
\* Fingerprint of the invocation, the invocation returns that record's output
\* and explanation and runs none of the later stages: nothing is packed, no
\* request is built, the model is not called and saveExample is not called.
C11_CacheHit ==
  \A i \in Calls :
    \A k \in 1..Len(loc[i].examples) :
      loc[i].examples[k].key = loc[i].Key =>
        /\ pc[i] = "done"
        /\ out[i] = Result(loc[i].examples[k].output, loc[i].examples[k].explanation)
        /\ loc[i].packed = <<>>
        /\ loc[i].request = NoRequest
        /\ count[i].tokenizer = 4
        /\ count[i].model = 0
        /\ count[i].saveExample = 0
        /\ count[i].written = 0

\* a hit on a record another invocation wrote, with caller examples to pack
C11_Witness ==
  \E i, j \in Calls :
    /\ i /= j
    /\ count[i].written = 1
    /\ args[j].examples /= <<>>
    /\ \E k \in 1..Len(loc[j].examples) : loc[j].examples[k].key = loc[j].Key
    /\ out[j].kind = "result"
    /\ out[j].value = loc[i].finalAnswer

\* none of the markers and labels occurs in the text, which neither starts nor
\* ends with white space
Clean(e) ==
  /\ ~Includes(e, TRUE_MARK)
  /\ ~Includes(e, FALSE_MARK)
  /\ ~Includes(e, END_MARK)
  /\ ~Includes(e, FinalAnswerLabel)
  /\ ~Includes(e, AnalysisLabel)
  /\ e /= <<>> => (~IsSpace(e[1]) /\ ~IsSpace(e[Len(e)]))

\* C12: for every response with at least one verdict marker, the explanation
\* holds no TRUE, FALSE or END marker, no "Final Answer:" and no "Analysis:"
\* label and no leading or trailing white space, however often each of them
\* occurs in the response.
C12_CleanExplanation ==
  (pout.ran /\ (Includes(ptext, TRUE_MARK) \/ Includes(ptext, FALSE_MARK))) =>
    /\ ~pout.threw
    /\ Clean(pout.explanation)

\* i and j were given the same taskId (set) and their inputs and conditions
\* are the same once truncated, and both got past line 93
SameTruncated(i, j) ==
  /\ i /= j
  /\ hist[i].entry = "clear"
  /\ hist[j].entry = "clear"
  /\ args[i].taskId /= None
  /\ args[i].taskId = args[j].taskId
  /\ loc[i].inputAsString = loc[j].inputAsString
  /\ loc[i].condition = loc[j].condition

\* the retrieved record a hit of j is served from was saved for j's tuple
SavedForSameTuple(j) ==
  \A k \in 1..Len(loc[j].examples) :
    loc[j].examples[k].key = loc[j].Key =>
      /\ loc[j].examples[k].taskType = taskType
      /\ loc[j].examples[k].taskId = args[j].taskId
      /\ loc[j].examples[k].input = loc[j].inputAsString
      /\ loc[j].examples[k].instructions = loc[j].condition

BothWrote(i, j) ==
  /\ i /= j
  /\ count[i].written = 1
  /\ count[j].written = 1
  /\ loc[i].Key = loc[j].Key

\* no invocation wrote a record for the Fingerprint of j after j did
LastWriter(j) ==
  \A m \in Calls :
    (count[m].written = 1 /\ loc[m].Key = loc[j].Key) => hist[m].endWrites <= hist[j].endWrites

\* C14 as stated: two invocations with the same Fingerprint are not
\* coalesced, both may miss the cache and invoke the model, and the records
\* they write carry equivalent values, whatever the interleaving.
C14_Original ==
  \A i, j \in Calls :
    BothWrote(i, j) =>
      /\ count[i].model = 1
      /\ count[j].model = 1
      /\ loc[i].finalAnswer = loc[j].finalAnswer
      /\ loc[i].explanation = loc[j].explanation

\* C14 (amended): two invocations with the same Fingerprint are not
\* coalesced: both may miss the cache and each invokes the model; the store
\* keeps one record for the Fingerprint, that of the last write, and the
\* records of the two carry the same values when the model gave both the same
\* response.
C14_LastWriteWins ==
  \A i, j \in Calls :
    (BothWrote(i, j) /\ LastWriter(j)) =>
      /\ count[i].model = 1
      /\ count[j].model = 1
      /\ Cardinality({k \in 1..Len(store) : store[k].key = loc[j].Key}) = 1
      /\ \A k \in 1..Len(store) :
           store[k].key = loc[j].Key =>
             /\ store[k].output = loc[j].finalAnswer
             /\ store[k].explanation = loc[j].explanation
             /\ store[k].input = loc[j].inputAsString
      /\ loc[i].text = loc[j].text =>
           /\ loc[i].finalAnswer = loc[j].finalAnswer
           /\ loc[i].explanation = loc[j].explanation

\* both missed, the model gave them opposite verdicts, and the store holds
\* the verdict of the one that wrote last
C14_Witness ==
  \E i, j \in Calls :
    /\ BothWrote(i, j)
    /\ LastWriter(j)
    /\ args[i].input = args[j].input
    /\ hist[i].endWrites < hist[j].endWrites
    /\ loc[i].finalAnswer /= loc[j].finalAnswer
    /\ Len(store) = 1
    /\ store[1].output = loc[j].finalAnswer

\* C15: a failure of the model call is the failure of the invocation: the
\* model is called at most once per invocation (no retry), and an invocation
\* whose model call failed returns no Result, calls saveExample never and
\* writes no record.
C15_ModelFailure ==
  \A i \in Calls :
    /\ count[i].model <= 1
    /\ out[i].error = "ProviderError" =>
         /\ pc[i] = "failed"
         /\ out[i] = Failure("ProviderError")
         /\ count[i].model = 1
         /\ loc[i].text = NoText
         /\ count[i].saveExample = 0
         /\ count[i].written = 0

\* the model call of an invocation that would have saved its record failed
C15_Witness ==
  \E i \in Calls :
    /\ hasAdapter
    /\ args[i].taskId /= None
    /\ ~aborted[i]
    /\ count[i].getExamples = 1
    /\ out[i].error = "ProviderError"
    /\ \A k \in 1..Len(store) : store[k].key /= loc[i].Key

\* the candidates in priority order: the records retrieved from the store as
\* examples, then the caller's examples, or the built-in ones when there are
\* none
CandidatePool ==
  LET combined ==
        [k \in 1..Len(bIn.retrieved) |->
           [input |-> Str(bIn.retrieved[k].input), check |-> bIn.retrieved[k].output,
            reason |-> bIn.retrieved[k].explanation, condition |-> NoText]]
          \o bIn.examples
  IN  IF combined = <<>> THEN defaultExamples ELSE combined

\* C16: the packed examples are a prefix of the candidate pool in pool order
\* (retrieved examples first, then the caller's): the scan stops at the first
\* example whose cost takes the running total above the examples budget and
\* no later example is taken, even one that would fit.
C16_Prefix ==
  bOut.stage = "packed" =>
    LET n == Len(bOut.loc.packed)
    IN  /\ n <= Len(CandidatePool)
        /\ bOut.loc.packed = SubSeq(CandidatePool, 1, n)
        /\ n > 0 => SumCost(bOut.loc.packed) <= bOut.loc.EXAMPLES_TOKENS
        /\ n < Len(CandidatePool) =>
             SumCost(SubSeq(CandidatePool, 1, n + 1)) > bOut.loc.EXAMPLES_TOKENS

\* a retrieved example is packed, the caller's first does not fit and the
\* caller's second, which would fit, is left out
C16_Witness ==
  /\ bOut.stage = "packed"
  /\ Len(bIn.retrieved) = 1
  /\ Len(bIn.examples) = 2
  /\ Len(bOut.loc.packed) = 1
  /\ SumCost(bOut.loc.packed) + SumCost(<<bIn.examples[2]>>) <= bOut.loc.EXAMPLES_TOKENS

\* e is one of the built-in fallback examples
IsDefault(e) == \E k \in 1..Len(defaultExamples) : defaultExamples[k] = e

\* e is one of the candidates of invocation i: a retrieved record as an
\* example, or one of the caller's examples
IsCandidate(i, e) ==
  \/ \E k \in 1..Len(loc[i].examples) :
       e = [input |-> Str(loc[i].examples[k].input), check |-> loc[i].examples[k].output,
            reason |-> loc[i].examples[k].explanation, condition |-> NoText]
  \/ \E k \in 1..Len(args[i].examples) : e = args[i].examples[k]

\* C17: the built-in fallback examples are used if and only if no example was
\* retrieved from the store and none was supplied by the caller; they are
\* never mixed with retrieved or supplied examples and never written to the
\* store, and the system prompt carries the guidance on the experts' examples
\* exactly when the pool is not the fallback pool.
C17_Fallback ==
  /\ \A i \in Calls :
       count[i].model >= 1 =>
         LET n == Len(loc[i].examples) + Len(args[i].examples)
         IN  /\ n = 0 =>
                  /\ loc[i].packed /= <<>>
                  /\ \A k \in 1..Len(loc[i].packed) : IsDefault(loc[i].packed[k])
             /\ n > 0 =>
                  \A k \in 1..Len(loc[i].packed) :
                    /\ ~IsDefault(loc[i].packed[k])
                    /\ IsCandidate(i, loc[i].packed[k])
             /\ HasGuidance(loc[i].request.systemPrompt) <=> n > 0
             /\ Len(loc[i].request.messages) = 2 * Len(loc[i].packed) + 1
  /\ \A k \in 1..Len(store) :
       /\ \A d \in 1..Len(defaultExamples) :
            store[k].input /= stringify(defaultExamples[d].input)
       /\ \E i \in Calls : store[k].input = loc[i].inputAsString /\ count[i].written = 1

\* one invocation was shown the fallback examples and wrote its record, the
\* other was shown that record as its example, with the guidance
C17_Witness ==
  \E i, j \in Calls :
    /\ count[i].model = 1
    /\ Len(loc[i].packed) = 2
    /\ IsDefault(loc[i].packed[1])
    /\ count[i].written = 1
    /\ count[j].model = 1
    /\ Len(loc[j].examples) = 1
    /\ Len(loc[j].packed) = 1
    /\ HasGuidance(loc[j].request.systemPrompt)
    /\ ~HasGuidance(loc[i].request.systemPrompt)

\* C18: whatever the maximum input size of the model (sizes at or below the
\* reserved overhead included), the input and the condition, the input share
\* plus the condition share is at most the total budget, and the examples
\* budget computed after truncation is not negative, provided truncate(text,
\* n) yields at most n tokens.
C18_Shares ==
  (bOut.stage /= "idle" /\ TruncateKeptLimits) =>
    /\ PROMPT_TOKENS(bIn.maxTokens).INPUT + PROMPT_TOKENS(bIn.maxTokens).CONDITION
         <= TotalBudget
    /\ TokenCount(bOut.loc.inputAsString) + TokenCount(bOut.loc.condition) <= TotalBudget
    /\ bOut.loc.EXAMPLES_TOKENS >= 0
    /\ bOut.loc.EXAMPLES_TOKENS
         >= TotalBudget - PROMPT_TOKENS(bIn.maxTokens).INPUT
                        - PROMPT_TOKENS(bIn.maxTokens).CONDITION

\* a model no larger than the reserved overhead, input and condition both cut
\* to their shares
C18_Witness ==
  /\ bOut.stage = "allocated"
  /\ bIn.maxTokens <= PROMPT_INPUT_BUFFER
  /\ bIn.slack = 0
  /\ TokenCount(bOut.loc.inputAsString) < TokenCount(stringify(bIn.input))
  /\ TokenCount(bOut.loc.condition) < TokenCount(bIn.condition)
  /\ bOut.loc.EXAMPLES_TOKENS = TotalBudget - TokenCount(bOut.loc.inputAsString)
                                  - TokenCount(bOut.loc.condition)
  /\ bOut.loc.EXAMPLES_TOKENS > 0

\* the text starts with the label of example number k
HasLabel(content, k) ==
  /\ Len(content) >= 2
  /\ content[1] = "Expert Example #"
  /\ content[2] = ToString(k)

\* the numbers of the example labels that occur in the text
LabelNumbers(content, n) ==
  {k \in 1..n : \E p \in 1..(Len(content) - 1) :
                  content[p] = "Expert Example #" /\ content[p + 1] = ToString(k)}

\* the system prompt announces the examples #1 to #n
Announces(prompt, n) ==
  \E p \in 1..(Len(prompt) - 1) :
    prompt[p] = "Expert Examples (#1 to #" /\ prompt[p + 1] = ToString(n)

\* C19: every packed example, whichever pool it comes from, is a user message
\* with a numbered label followed by an assistant message, the numbers run
\* from 1 in packing order, the system prompt announces exactly the range of
\* the numbers used (#1 to #N), and the final query message carries no number
\* of that range.
C19_Numbering ==
  bOut.stage = "packed" =>
    LET n == Len(bOut.loc.packed)
        messages == bOut.loc.request.messages
    IN  /\ Len(messages) = 2 * n + 1
        /\ \A k \in 1..n :
             /\ messages[2 * k - 1].role = "user"
             /\ HasLabel(messages[2 * k - 1].content, k)
             /\ messages[2 * k].role = "assistant"
        /\ Announces(bOut.loc.request.systemPrompt, n)
        /\ messages[2 * n + 1].role = "user"
        /\ LabelNumbers(messages[2 * n + 1].content, n) = {}

====
